---- MODULE Spec2Model ----
(***************************************************************************)
(* Model of src/src/graphics/env-lighting.js: the EnvLighting helpers that *)
(* turn an environment capture into a lighting-source cubemap and a packed *)
(* 512x512 lighting atlas.                                                 *)
(*                                                                         *)
(* A texture is modelled by the configuration object it was constructed    *)
(* with (a record holding exactly the keys that were passed), the scene    *)
(* of a call by the log `calls` of everything the call submits: GPU marker *)
(* pushes and pops, reprojectTexture calls with a snapshot of their        *)
(* options (the rect is read at the moment of the call), and destroys.     *)
(* One behaviour is one call of one operation, advanced statement by       *)
(* statement.                                                              *)
(***************************************************************************)
EXTENDS Integers, Sequences, FiniteSets, TLC

VARIABLES
    pc,         \* position in the running operation
    op,         \* the operation that was called
    device,     \* source.device: the capability flags
    heap,       \* texture id -> the configuration it was constructed with
    destroyed,  \* ids of the textures destroy() was called on
    source,     \* id of `source` (single-source operations)
    sources,    \* ids of `sources[0..5]` (generatePrefilteredAtlas)
    size,       \* the optional `size` argument of generateSkyboxCubemap
    options,    \* the optional `options` argument
    result,     \* local `result` of the public operation
    target,     \* parameter `target` of generateMipmaps
    mipResult,  \* local `result` of generateMipmaps
    rect,       \* the Vec4 `rect`, mutated in place
    i,          \* loop counter
    calls,      \* log of submitted calls, in submission order
    returned    \* id of the returned texture, 0 before the return

vars == <<pc, op, device, heap, destroyed, source, sources, size, options,
          result, target, mipResult, rect, i, calls, returned>>

----------------------------------------------------------------------------
(* Bounds of the inputs *)

\* source textures are 2^(MaxSourceExp-1) or 2^MaxSourceExp wide
MaxSourceExp == 9
\* a caller-supplied options.target is 2^(MaxTargetExp-1) or 2^MaxTargetExp wide and high
MaxTargetExp == 9
\* a caller-supplied options.numSamples is 1 or 2^MaxSamplesExp
MaxSamplesExp == 4
\* a caller-supplied size of generateSkyboxCubemap is 2^MaxSizeExp
MaxSizeExp == 6

SourceWidths == {2 ^ k : k \in (MaxSourceExp - 1)..MaxSourceExp}
TargetDims == {2 ^ k : k \in (MaxTargetExp - 1)..MaxTargetExp}
NumSamplesValues == {1, 2 ^ MaxSamplesExp}
SizeValues == {2 ^ MaxSizeExp}
DistributionValues == {"ggx", "phong", "lambert"}

----------------------------------------------------------------------------
(* JavaScript values *)

\* an object with no keys
EmptyObject == [k \in {} |-> 0]

\* an optional argument or key: <<>> when omitted, <<v>> when given
Maybe(S) == {<<>>} \cup {<<v>> : v \in S}

\* the object { name: m[1] }, or {} when the key is omitted
Field(name, m) == IF m = <<>> THEN EmptyObject ELSE (name :> m[1])

\* options?.key is defined
HasOption(o, key) == o.given /\ key \in DOMAIN o.fields

\* Math.max(1, Math.floor(v * 0.5)) on a non-negative integer
HalfAtLeastOne(v) == IF v \div 2 > 1 THEN v \div 2 ELSE 1

\* a >> n on a non-negative 32-bit integer (the shift count is taken mod 32)
ShiftRight(a, n) == a \div (2 ^ (n % 32))

\* new Vec4(x, y, z, w) / Vec4.set(x, y, z, w)
Vec4(x, y, z, w) == [x |-> x, y |-> y, z |-> z, w |-> w]

----------------------------------------------------------------------------
(* Program constants *)

LightingSourceSize == 128
AtlasSize == 512
AtlasHalf == 256
DefaultReflectionSamples == 1024
DefaultAmbientSamples == 2048
LegacyAmbientSamples == 4096
SkyboxSamples == 1024
SpecularPowerBase == 2048
NumLevels == 7
NumSources == 6

fixCubemapSeams == TRUE

----------------------------------------------------------------------------
(* Format selection and texture construction *)

Devices ==
    [extTextureHalfFloat : BOOLEAN, textureHalfFloatRenderable : BOOLEAN,
     extTextureFloat : BOOLEAN, textureFloatRenderable : BOOLEAN]

supportsFloat16(dev) == dev.extTextureHalfFloat /\ dev.textureHalfFloatRenderable

supportsFloat32(dev) == dev.extTextureFloat /\ dev.textureFloatRenderable

lightingSourcePixelFormat_PreferFloat32(dev) ==
    IF supportsFloat32(dev) THEN "PIXELFORMAT_RGBA32F"
    ELSE IF supportsFloat16(dev) THEN "PIXELFORMAT_RGBA16F"
    ELSE "PIXELFORMAT_R8_G8_B8_A8"

\* lighting source should be stored HDR
lightingSourcePixelFormat(dev) ==
    IF supportsFloat16(dev) THEN "PIXELFORMAT_RGBA16F"
    ELSE IF supportsFloat32(dev) THEN "PIXELFORMAT_RGBA32F"
    ELSE "PIXELFORMAT_R8_G8_B8_A8"

\* runtime lighting can be RGBM
lightingPixelFormat(dev) == "PIXELFORMAT_R8_G8_B8_A8"

\* format === PIXELFORMAT_R8_G8_B8_A8 ? TEXTURETYPE_RGBM : TEXTURETYPE_DEFAULT
TextureType(format) ==
    IF format = "PIXELFORMAT_R8_G8_B8_A8" THEN "TEXTURETYPE_RGBM" ELSE "TEXTURETYPE_DEFAULT"

\* the configuration createCubemap passes to new Texture
createCubemap(sz, format, mipmaps) ==
    [name |-> "lighting-" \o ToString(sz),
     cubemap |-> TRUE,
     width |-> sz,
     height |-> sz,
     format |-> format,
     type |-> TextureType(format),
     addressU |-> "ADDRESS_CLAMP_TO_EDGE",
     addressV |-> "ADDRESS_CLAMP_TO_EDGE",
     fixCubemapSeams |-> fixCubemapSeams,
     mipmaps |-> mipmaps]

mipmappedTexture_KeepFlag(t) ==
    [name |-> t.name \o "-mipmaps",
     cubemap |-> t.cubemap,
     width |-> t.width,
     height |-> t.height,
     format |-> t.format,
     type |-> t.type,
     addressU |-> t.addressU,
     addressV |-> t.addressV,
     fixCubemapSeams |-> t.fixCubemapSeams,
     mipmaps |-> t.mipmaps]

\* the configuration generateMipmaps passes to new Texture (the mipmapped result)
mipmappedTexture(t) ==
    [name |-> t.name \o "-mipmaps",
     cubemap |-> t.cubemap,
     width |-> t.width,
     height |-> t.height,
     format |-> t.format,
     type |-> t.type,
     addressU |-> t.addressU,
     addressV |-> t.addressV,
     fixCubemapSeams |-> t.fixCubemapSeams,
     mipmaps |-> TRUE]

atlasTexture_HalfHeight(format) ==
    [width |-> AtlasSize,
     height |-> AtlasHalf,
     format |-> format,
     type |-> TextureType(format),
     projection |-> "TEXTUREPROJECTION_EQUIRECT",
     addressU |-> "ADDRESS_CLAMP_TO_EDGE",
     addressV |-> "ADDRESS_CLAMP_TO_EDGE",
     mipmaps |-> FALSE]

\* the configuration generateAtlas and generatePrefilteredAtlas pass to new Texture
atlasTexture(format) ==
    [width |-> AtlasSize,
     height |-> AtlasSize,
     format |-> format,
     type |-> TextureType(format),
     projection |-> "TEXTUREPROJECTION_EQUIRECT",
     addressU |-> "ADDRESS_CLAMP_TO_EDGE",
     addressV |-> "ADDRESS_CLAMP_TO_EDGE",
     mipmaps |-> FALSE]

----------------------------------------------------------------------------
(* The textures a caller can pass in *)

\* a source: a cubemap, or a 2:1 equirect 2d texture
SourceTexture(cube, w, mips) ==
    [name |-> "source",
     cubemap |-> cube,
     width |-> w,
     height |-> IF cube THEN w ELSE w \div 2,
     format |-> "PIXELFORMAT_R8_G8_B8_A8",
     type |-> "TEXTURETYPE_RGBM",
     projection |-> IF cube THEN "TEXTUREPROJECTION_CUBE" ELSE "TEXTUREPROJECTION_EQUIRECT",
     addressU |-> "ADDRESS_CLAMP_TO_EDGE",
     addressV |-> "ADDRESS_CLAMP_TO_EDGE",
     fixCubemapSeams |-> cube,
     mipmaps |-> mips]

SourceTextures ==
    {SourceTexture(cube, w, mips) : cube \in BOOLEAN, w \in SourceWidths, mips \in BOOLEAN}

\* sources[k] of generatePrefilteredAtlas: prefiltered cubemaps of decreasing size
PrefilteredTextures(mips) ==
    [k \in 1..NumSources |-> SourceTexture(TRUE, ShiftRight(AtlasHalf, k), mips)]

\* a caller-owned options.target
TargetTextures ==
    {[name |-> "target",
      cubemap |-> FALSE,
      width |-> w,
      height |-> h,
      format |-> "PIXELFORMAT_R8_G8_B8_A8",
      type |-> "TEXTURETYPE_RGBM",
      projection |-> "TEXTUREPROJECTION_EQUIRECT",
      addressU |-> "ADDRESS_CLAMP_TO_EDGE",
      addressV |-> "ADDRESS_CLAMP_TO_EDGE",
      mipmaps |-> FALSE] : w \in TargetDims, h \in TargetDims}

\* the options objects without a target: any subset of the recognised keys
OptionFields ==
    {Field("numSamples", n) @@ Field("distribution", d) @@ Field("legacyAmbient", l) :
        n \in Maybe(NumSamplesValues), d \in Maybe(DistributionValues), l \in Maybe(BOOLEAN)}

NoOptions == [given |-> FALSE, fields |-> EmptyObject]

----------------------------------------------------------------------------
(* Option defaults, the rect walk and the options of each reproject call *)

\* options?.key || dflt for a numeric key (0 is falsy)
NumberOr(o, key, dflt) ==
    IF HasOption(o, key) /\ o.fields[key] # 0 THEN o.fields[key] ELSE dflt

\* options?.key || dflt for a string key ('' is falsy)
StringOr(o, key, dflt) ==
    IF HasOption(o, key) /\ o.fields[key] # "" THEN o.fields[key] ELSE dflt

\* options?.legacyAmbient as a condition
LegacyAmbient(o) == HasOption(o, "legacyAmbient") /\ o.fields.legacyAmbient

\* new Vec4(0, 0, 512, 256)
InitialRect == Vec4(0, 0, AtlasSize, AtlasHalf)

\* rect.set(256, 256, 64, 32)
AmbientRect == Vec4(256, 256, 64, 32)

AdvanceRect_HalveFirst(r) ==
    Vec4(r.x, r.y + HalfAtLeastOne(r.w), HalfAtLeastOne(r.z), HalfAtLeastOne(r.w))

AdvanceRect_NoStack(r) == Vec4(r.x, r.y, HalfAtLeastOne(r.z), HalfAtLeastOne(r.w))

\* rect.y += rect.w; rect.z = max(1, floor(rect.z * 0.5)); rect.w = max(1, floor(rect.w * 0.5))
AdvanceRect(r) == Vec4(r.x, r.y + r.w, HalfAtLeastOne(r.z), HalfAtLeastOne(r.w))

SpecularPower_SingleShift(level) ==
    IF ShiftRight(SpecularPowerBase, level) > 1
    THEN ShiftRight(SpecularPowerBase, level) ELSE 1

\* Math.max(1, 2048 >> (i * 2))
SpecularPower(level) ==
    IF ShiftRight(SpecularPowerBase, level * 2) > 1
    THEN ShiftRight(SpecularPowerBase, level * 2) ELSE 1

\* options of a plain single-sample copy into r
CopyOptions(r) == [numSamples |-> 1, rect |-> r, seamPixels |-> 1]

\* options of the blurry reflection of the given level
BlurryOptions(o, level, r) ==
    [numSamples |-> NumberOr(o, "numSamples", DefaultReflectionSamples),
     distribution |-> StringOr(o, "distribution", "ggx"),
     specularPower |-> SpecularPower(level),
     rect |-> r,
     seamPixels |-> 1]

AmbientOptions_CallerDistribution(o, r) ==
    IF LegacyAmbient(o)
    THEN [numSamples |-> NumberOr(o, "numSamples", LegacyAmbientSamples),
          distribution |-> StringOr(o, "distribution", "phong"),
          specularPower |-> 2,
          rect |-> r,
          seamPixels |-> 1]
    ELSE [numSamples |-> NumberOr(o, "numSamples", DefaultAmbientSamples),
          distribution |-> StringOr(o, "distribution", "lambert"),
          rect |-> r,
          seamPixels |-> 1]

\* options of the ambient pass of generateAtlas
AmbientOptions(o, r) ==
    IF LegacyAmbient(o)
    THEN [numSamples |-> NumberOr(o, "numSamples", LegacyAmbientSamples),
          distribution |-> "phong",
          specularPower |-> 2,
          rect |-> r,
          seamPixels |-> 1]
    ELSE [numSamples |-> NumberOr(o, "numSamples", DefaultAmbientSamples),
          distribution |-> "lambert",
          rect |-> r,
          seamPixels |-> 1]

\* options of the lambert ambient pass of generatePrefilteredAtlas
PrefilteredAmbientOptions(o, r) ==
    [numSamples |-> NumberOr(o, "numSamples", DefaultAmbientSamples),
     distribution |-> "lambert",
     rect |-> r,
     seamPixels |-> 1]

----------------------------------------------------------------------------
(* Submitted calls *)

\* Debug.pushGpuMarker(device, label)
PushGpuMarker(label) == [kind |-> "push", label |-> label]

\* Debug.popGpuMarker(device)
PopGpuMarker == [kind |-> "pop"]

\* reprojectTexture(source, target, options)
ReprojectTexture(s, t, o) == [kind |-> "reproject", source |-> s, target |-> t, options |-> o]

\* texture.destroy()
DestroyTexture(t) == [kind |-> "destroy", texture |-> t]

Submit(e) == calls' = Append(calls, e)

Goto(from, to) == pc = from /\ pc' = to

\* the arguments of a call, as the callee finds them on entry
Enter(name, dev, textures, src, srcs, sz, opts) ==
    /\ op' = name
    /\ device' = dev
    /\ heap' = textures
    /\ source' = src
    /\ sources' = srcs
    /\ size' = sz
    /\ options' = opts

\* the options argument together with the heap holding the caller's textures:
\* no options, options without a target, options with a caller-owned target
CallOptions(textures) ==
    {<<textures, NoOptions>>}
    \cup {<<textures, [given |-> TRUE, fields |-> f]>> : f \in OptionFields}
    \cup {<<Append(textures, t),
            [given |-> TRUE, fields |-> f @@ ("target" :> Len(textures) + 1)]>> :
             f \in OptionFields, t \in TargetTextures}

Init ==
    /\ pc = "idle"
    /\ op = "none"
    /\ device = [extTextureHalfFloat |-> FALSE, textureHalfFloatRenderable |-> FALSE,
                 extTextureFloat |-> FALSE, textureFloatRenderable |-> FALSE]
    /\ heap = <<>>
    /\ destroyed = {}
    /\ source = 0
    /\ sources = <<>>
    /\ size = <<>>
    /\ options = NoOptions
    /\ result = 0
    /\ target = 0
    /\ mipResult = 0
    /\ rect = Vec4(0, 0, 0, 0)
    /\ i = 0
    /\ calls = <<>>
    /\ returned = 0

----------------------------------------------------------------------------
(* generateMipmaps(target) *)

generateMipmaps_Call ==
    /\ Goto("idle", "mipmaps_push")
    /\ \E dev \in Devices, t \in SourceTextures :
          /\ ~t.mipmaps
          /\ Enter("generateMipmaps", dev, <<t>>, 0, <<>>, <<>>, NoOptions)
    /\ target' = 1
    /\ UNCHANGED <<destroyed, result, mipResult, rect, i, calls, returned>>

generateMipmaps_Push ==
    /\ Goto("mipmaps_push", "mipmaps_create")
    /\ Submit(PushGpuMarker("genMipmaps"))
    /\ UNCHANGED <<op, device, heap, destroyed, source, sources, size, options,
                   result, target, mipResult, rect, i, returned>>

generateMipmaps_Create ==
    /\ Goto("mipmaps_create", "mipmaps_copy")
    /\ heap' = Append(heap, mipmappedTexture(heap[target]))
    /\ mipResult' = Len(heap) + 1
    /\ UNCHANGED <<op, device, destroyed, source, sources, size, options,
                   result, target, rect, i, calls, returned>>

generateMipmaps_Copy ==
    /\ Goto("mipmaps_copy", "mipmaps_destroy")
    /\ Submit(ReprojectTexture(target, mipResult, [numSamples |-> 1]))
    /\ UNCHANGED <<op, device, heap, destroyed, source, sources, size, options,
                   result, target, mipResult, rect, i, returned>>

generateMipmaps_Destroy_Result ==
    /\ Goto("mipmaps_destroy", "mipmaps_return")
    /\ Submit(DestroyTexture(mipResult))
    /\ destroyed' = destroyed \cup {mipResult}
    /\ UNCHANGED <<op, device, heap, source, sources, size, options,
                   result, target, mipResult, rect, i, returned>>

generateMipmaps_Destroy ==
    /\ Goto("mipmaps_destroy", "mipmaps_return")
    /\ Submit(DestroyTexture(target))
    /\ destroyed' = destroyed \cup {target}
    /\ UNCHANGED <<op, device, heap, source, sources, size, options,
                   result, target, mipResult, rect, i, returned>>

generateMipmaps_Return ==
    /\ Goto("mipmaps_return", "done")
    /\ Submit(PopGpuMarker)
    /\ returned' = mipResult
    /\ UNCHANGED <<op, device, heap, destroyed, source, sources, size, options,
                   result, target, mipResult, rect, i>>

----------------------------------------------------------------------------
(* EnvLighting.generateSkyboxCubemap(source, size) *)

\* size || (source.cubemap ? source.width : source.width / 4)
SkyboxSize(sz, src) ==
    IF sz # <<>> /\ sz[1] # 0 THEN sz[1]
    ELSE IF src.cubemap THEN src.width ELSE src.width \div 4

generateSkyboxCubemap_Call ==
    /\ Goto("idle", "skybox_create")
    /\ \E dev \in Devices, t \in SourceTextures, sz \in Maybe(SizeValues) :
          Enter("generateSkyboxCubemap", dev, <<t>>, 1, <<>>, sz, NoOptions)
    /\ Submit(PushGpuMarker("genSkyboxCubemap"))
    /\ UNCHANGED <<destroyed, result, target, mipResult, rect, i, returned>>

generateSkyboxCubemap_Create ==
    /\ Goto("skybox_create", "skybox_reproject")
    /\ heap' = Append(heap, createCubemap(SkyboxSize(size, heap[source]),
                                          "PIXELFORMAT_R8_G8_B8_A8", FALSE))
    /\ result' = Len(heap) + 1
    /\ UNCHANGED <<op, device, destroyed, source, sources, size, options,
                   target, mipResult, rect, i, calls, returned>>

generateSkyboxCubemap_Reproject ==
    /\ Goto("skybox_reproject", "skybox_return")
    /\ Submit(ReprojectTexture(source, result, [numSamples |-> SkyboxSamples]))
    /\ UNCHANGED <<op, device, heap, destroyed, source, sources, size, options,
                   result, target, mipResult, rect, i, returned>>

generateSkyboxCubemap_Return ==
    /\ Goto("skybox_return", "done")
    /\ Submit(PopGpuMarker)
    /\ returned' = result
    /\ UNCHANGED <<op, device, heap, destroyed, source, sources, size, options,
                   result, target, mipResult, rect, i>>

----------------------------------------------------------------------------
(* EnvLighting.generateLightingSource(source) *)

\* numSamples: source.mipmaps ? 1 : 1024
LightingSourceSamples(src) == IF src.mipmaps THEN 1 ELSE DefaultReflectionSamples

generateLightingSource_Call ==
    /\ Goto("idle", "lighting_create")
    /\ \E dev \in Devices, t \in SourceTextures :
          Enter("generateLightingSource", dev, <<t>>, 1, <<>>, <<>>, NoOptions)
    /\ Submit(PushGpuMarker("genLightingSource"))
    /\ UNCHANGED <<destroyed, result, target, mipResult, rect, i, returned>>

generateLightingSource_Create ==
    /\ Goto("lighting_create", "lighting_reproject")
    /\ heap' = Append(heap, createCubemap(LightingSourceSize,
                                          lightingSourcePixelFormat(device), FALSE))
    /\ result' = Len(heap) + 1
    /\ UNCHANGED <<op, device, destroyed, source, sources, size, options,
                   target, mipResult, rect, i, calls, returned>>

generateLightingSource_Reproject ==
    /\ Goto("lighting_reproject", "lighting_pop")
    /\ Submit(ReprojectTexture(source, result,
                               [numSamples |-> LightingSourceSamples(heap[source])]))
    /\ UNCHANGED <<op, device, heap, destroyed, source, sources, size, options,
                   result, target, mipResult, rect, i, returned>>

\* popGpuMarker, then the call generateMipmaps(result)
generateLightingSource_Pop ==
    /\ Goto("lighting_pop", "mipmaps_push")
    /\ Submit(PopGpuMarker)
    /\ target' = result
    /\ UNCHANGED <<op, device, heap, destroyed, source, sources, size, options,
                   result, mipResult, rect, i, returned>>

----------------------------------------------------------------------------
(* EnvLighting.generateAtlas(source, options) *)

generateAtlas_Call ==
    /\ Goto("idle", "atlas_create")
    /\ \E dev \in Devices, t \in SourceTextures :
          \E c \in CallOptions(<<t>>) :
              Enter("generateAtlas", dev, c[1], 1, <<>>, <<>>, c[2])
    /\ Submit(PushGpuMarker("genAtlas"))
    /\ UNCHANGED <<destroyed, result, target, mipResult, rect, i, returned>>

\* const result = options?.target || new Texture(...); const rect = new Vec4(0, 0, 512, 256)
AtlasResult ==
    IF HasOption(options, "target")
    THEN /\ result' = options.fields.target
         /\ heap' = heap
    ELSE /\ result' = Len(heap) + 1
         /\ heap' = Append(heap, atlasTexture(lightingPixelFormat(device)))

generateAtlas_Create ==
    /\ Goto("atlas_create", "atlas_reflection")
    /\ AtlasResult
    /\ rect' = InitialRect
    /\ UNCHANGED <<op, device, destroyed, source, sources, size, options,
                   target, mipResult, i, calls, returned>>

generateAtlas_PushReflection ==
    /\ Goto("atlas_reflection", "atlas_top")
    /\ Submit(PushGpuMarker("reflection"))
    /\ UNCHANGED <<op, device, heap, destroyed, source, sources, size, options,
                   result, target, mipResult, rect, i, returned>>

\* generate top-level reflection
generateAtlas_TopLevel ==
    /\ Goto("atlas_top", "atlas_loop")
    /\ Submit(ReprojectTexture(source, result, CopyOptions(rect)))
    /\ i' = 1
    /\ UNCHANGED <<op, device, heap, destroyed, source, sources, size, options,
                   result, target, mipResult, rect, returned>>

\* generate blurry reflections: one iteration of the loop
generateAtlas_Blurry ==
    /\ Goto("atlas_loop", "atlas_loop")
    /\ i < NumLevels
    /\ rect' = AdvanceRect(rect)
    /\ Submit(ReprojectTexture(source, result, BlurryOptions(options, i, rect')))
    /\ i' = i + 1
    /\ UNCHANGED <<op, device, heap, destroyed, source, sources, size, options,
                   result, target, mipResult, returned>>

\* loop exit, popGpuMarker, rect.set(256, 256, 64, 32)
generateAtlas_PopReflection ==
    /\ Goto("atlas_loop", "atlas_ambient")
    /\ ~(i < NumLevels)
    /\ Submit(PopGpuMarker)
    /\ rect' = AmbientRect
    /\ UNCHANGED <<op, device, heap, destroyed, source, sources, size, options,
                   result, target, mipResult, i, returned>>

generateAtlas_PushAmbient ==
    /\ Goto("atlas_ambient", "atlas_convolve")
    /\ Submit(PushGpuMarker("ambient"))
    /\ UNCHANGED <<op, device, heap, destroyed, source, sources, size, options,
                   result, target, mipResult, rect, i, returned>>

\* generate ambient
generateAtlas_Ambient ==
    /\ Goto("atlas_convolve", "atlas_pop")
    /\ Submit(ReprojectTexture(source, result, AmbientOptions(options, rect)))
    /\ UNCHANGED <<op, device, heap, destroyed, source, sources, size, options,
                   result, target, mipResult, rect, i, returned>>

generateAtlas_PopAmbient ==
    /\ Goto("atlas_pop", "atlas_return")
    /\ Submit(PopGpuMarker)
    /\ UNCHANGED <<op, device, heap, destroyed, source, sources, size, options,
                   result, target, mipResult, rect, i, returned>>

generateAtlas_Return_NoPop ==
    /\ Goto("atlas_return", "done")
    /\ returned' = result
    /\ UNCHANGED <<op, device, heap, destroyed, source, sources, size, options,
                   result, target, mipResult, rect, i, calls>>

generateAtlas_Return ==
    /\ Goto("atlas_return", "done")
    /\ Submit(PopGpuMarker)
    /\ returned' = result
    /\ UNCHANGED <<op, device, heap, destroyed, source, sources, size, options,
                   result, target, mipResult, rect, i>>

----------------------------------------------------------------------------
(* EnvLighting.generatePrefilteredAtlas(sources, options) *)

generatePrefilteredAtlas_Call ==
    /\ Goto("idle", "prefiltered_create")
    /\ \E dev \in Devices, mips \in BOOLEAN :
          \E c \in CallOptions(PrefilteredTextures(mips)) :
              Enter("generatePrefilteredAtlas", dev, c[1], 0,
                    [k \in 1..NumSources |-> k], <<>>, c[2])
    /\ Submit(PushGpuMarker("genPrefilteredAtlas"))
    /\ UNCHANGED <<destroyed, result, target, mipResult, rect, i, returned>>

generatePrefilteredAtlas_Create ==
    /\ Goto("prefiltered_create", "prefiltered_reflection")
    /\ AtlasResult
    /\ rect' = InitialRect
    /\ UNCHANGED <<op, device, destroyed, source, sources, size, options,
                   target, mipResult, i, calls, returned>>

\* pushGpuMarker, let i = 0
generatePrefilteredAtlas_PushReflection ==
    /\ Goto("prefiltered_reflection", "prefiltered_loop")
    /\ Submit(PushGpuMarker("reflection"))
    /\ i' = 0
    /\ UNCHANGED <<op, device, heap, destroyed, source, sources, size, options,
                   result, target, mipResult, rect, returned>>

generatePrefilteredAtlas_Copy_AdvanceFirst ==
    /\ Goto("prefiltered_loop", "prefiltered_loop")
    /\ i < Len(sources)
    /\ rect' = AdvanceRect(rect)
    /\ Submit(ReprojectTexture(sources[i + 1], result, CopyOptions(rect')))
    /\ i' = i + 1
    /\ UNCHANGED <<op, device, heap, destroyed, source, sources, size, options,
                   result, target, mipResult, returned>>

\* copy blurry reflections: one iteration of the loop (sources[i] is sources[i + 1] here)
generatePrefilteredAtlas_Copy ==
    /\ Goto("prefiltered_loop", "prefiltered_loop")
    /\ i < Len(sources)
    /\ Submit(ReprojectTexture(sources[i + 1], result, CopyOptions(rect)))
    /\ rect' = AdvanceRect(rect)
    /\ i' = i + 1
    /\ UNCHANGED <<op, device, heap, destroyed, source, sources, size, options,
                   result, target, mipResult, returned>>

\* loop exit, popGpuMarker, rect.set(256, 256, 64, 32)
generatePrefilteredAtlas_PopReflection ==
    /\ Goto("prefiltered_loop", "prefiltered_ambient")
    /\ ~(i < Len(sources))
    /\ Submit(PopGpuMarker)
    /\ rect' = AmbientRect
    /\ UNCHANGED <<op, device, heap, destroyed, source, sources, size, options,
                   result, target, mipResult, i, returned>>

generatePrefilteredAtlas_PushAmbient ==
    /\ Goto("prefiltered_ambient", "prefiltered_convolve")
    /\ Submit(PushGpuMarker("ambient"))
    /\ UNCHANGED <<op, device, heap, destroyed, source, sources, size, options,
                   result, target, mipResult, rect, i, returned>>

\* generate ambient: a copy of sources[5] (legacy) or a lambert convolution of sources[0]
generatePrefilteredAtlas_Ambient ==
    /\ Goto("prefiltered_convolve", "prefiltered_pop")
    /\ IF LegacyAmbient(options)
       THEN Submit(ReprojectTexture(sources[6], result, CopyOptions(rect)))
       ELSE Submit(ReprojectTexture(sources[1], result,
                                    PrefilteredAmbientOptions(options, rect)))
    /\ UNCHANGED <<op, device, heap, destroyed, source, sources, size, options,
                   result, target, mipResult, rect, i, returned>>

generatePrefilteredAtlas_PopAmbient ==
    /\ Goto("prefiltered_pop", "prefiltered_return")
    /\ Submit(PopGpuMarker)
    /\ UNCHANGED <<op, device, heap, destroyed, source, sources, size, options,
                   result, target, mipResult, rect, i, returned>>

generatePrefilteredAtlas_Return ==
    /\ Goto("prefiltered_return", "done")
    /\ Submit(PopGpuMarker)
    /\ returned' = result
    /\ UNCHANGED <<op, device, heap, destroyed, source, sources, size, options,
                   result, target, mipResult, rect, i>>

----------------------------------------------------------------------------

Next ==
    \/ generateMipmaps_Call
    \/ generateMipmaps_Push
    \/ generateMipmaps_Create
    \/ generateMipmaps_Copy
    \/ generateMipmaps_Destroy
    \/ generateMipmaps_Return
    \/ generateSkyboxCubemap_Call
    \/ generateSkyboxCubemap_Create
    \/ generateSkyboxCubemap_Reproject
    \/ generateSkyboxCubemap_Return
    \/ generateLightingSource_Call
    \/ generateLightingSource_Create
    \/ generateLightingSource_Reproject
    \/ generateLightingSource_Pop
    \/ generateAtlas_Call
    \/ generateAtlas_Create
    \/ generateAtlas_PushReflection
    \/ generateAtlas_TopLevel
    \/ generateAtlas_Blurry
    \/ generateAtlas_PopReflection
    \/ generateAtlas_PushAmbient
    \/ generateAtlas_Ambient
    \/ generateAtlas_PopAmbient
    \/ generateAtlas_Return
    \/ generatePrefilteredAtlas_Call
    \/ generatePrefilteredAtlas_Create
    \/ generatePrefilteredAtlas_PushReflection
    \/ generatePrefilteredAtlas_Copy
    \/ generatePrefilteredAtlas_PopReflection
    \/ generatePrefilteredAtlas_PushAmbient
    \/ generatePrefilteredAtlas_Ambient
    \/ generatePrefilteredAtlas_PopAmbient
    \/ generatePrefilteredAtlas_Return

Spec == Init /\ [][Next]_vars

----------------------------------------------------------------------------
(* Reading the log *)

\* the reprojectTexture calls, in submission order
ReprojectCalls == SelectSeq(calls, LAMBDA e : e.kind = "reproject")

\* the reprojectTexture and destroy calls, in submission order
EffectCalls == SelectSeq(calls, LAMBDA e : e.kind \in {"reproject", "destroy"})

\* the number of spans open after the first n submitted calls
OpenSpans(n) ==
    Cardinality({k \in 1..n : calls[k].kind = "push"})
        - Cardinality({k \in 1..n : calls[k].kind = "pop"})

\* the rectangles of reflection levels 0..6 (at 1..7), as the layout states them
AtlasLevelRects ==
    <<Vec4(0, 0, 512, 256), Vec4(0, 256, 256, 128), Vec4(0, 384, 128, 64),
      Vec4(0, 448, 64, 32), Vec4(0, 480, 32, 16), Vec4(0, 496, 16, 8),
      Vec4(0, 504, 8, 4)>>

\* the specular powers of levels 1..6, as the layout states them
LevelSpecularPowers == <<512, 128, 32, 8, 2, 1>>

\* two rects share a pixel
Overlap(a, b) ==
    /\ a.x < b.x + b.z
    /\ b.x < a.x + a.z
    /\ a.y < b.y + b.w
    /\ b.y < a.y + a.w

\* the rect lies inside [0,512) x [0,512)
InAtlas(r) == r.x >= 0 /\ r.y >= 0 /\ r.x + r.z <= 512 /\ r.y + r.w <= 512

\* an attribute of a texture configuration: <<>> when it was not given
Attr(t, a) == IF a \in DOMAIN t THEN <<t[a]>> ELSE <<>>

----------------------------------------------------------------------------
(* C1: in generateAtlas the rects of the reproject calls are, in submission *)
(* order, the 7 reflection level rects (0,0,512,256) ... (0,504,8,4)       *)
(* followed by the ambient rect (256,256,64,32), whatever the options.     *)
C1_RectSequence ==
    op = "generateAtlas" =>
        LET rs == ReprojectCalls
            expected == AtlasLevelRects \o <<Vec4(256, 256, 64, 32)>>
        IN  /\ Len(rs) <= 8
            /\ \A k \in 1..Len(rs) : rs[k].options.rect = expected[k]
            /\ pc = "done" => Len(rs) = 8

C1_Witness ==
    /\ op = "generateAtlas"
    /\ pc = "done"
    /\ Len(ReprojectCalls) = 8
    /\ HasOption(options, "target")
    /\ HasOption(options, "numSamples")
    /\ HasOption(options, "distribution")
    /\ LegacyAmbient(options)

(* C2: in one atlas build (generateAtlas, or generatePrefilteredAtlas with *)
(* 6 sources) no two rects passed to reproject overlap and every rect lies *)
(* inside [0,512) x [0,512).                                               *)
C2_NoOverlapInBounds ==
    op \in {"generateAtlas", "generatePrefilteredAtlas"} =>
        LET rs == ReprojectCalls
        IN  /\ \A k \in 1..Len(rs) : InAtlas(rs[k].options.rect)
            /\ \A j, k \in 1..Len(rs) :
                  j # k => ~Overlap(rs[j].options.rect, rs[k].options.rect)

C2_Witness ==
    /\ op = "generatePrefilteredAtlas"
    /\ pc = "done"
    /\ Len(sources) = 6
    /\ Len(ReprojectCalls) = 7
    /\ HasOption(options, "target")

(* C3: in generateAtlas the level 0 call is a copy (numSamples 1, neither  *)
(* distribution nor specularPower), and the call of level i in 1..6 has    *)
(* specularPower 512, 128, 32, 8, 2, 1, distribution options.distribution  *)
(* when supplied else 'ggx', numSamples options.numSamples when supplied   *)
(* else 1024.                                                              *)
C3_ReflectionParameters ==
    op = "generateAtlas" =>
        LET rs == ReprojectCalls
        IN  /\ Len(rs) >= 1 =>
                  /\ DOMAIN rs[1].options = {"numSamples", "rect", "seamPixels"}
                  /\ rs[1].options.numSamples = 1
            /\ \A k \in 2..Len(rs) : k <= 7 =>
                  /\ rs[k].options.specularPower = LevelSpecularPowers[k - 1]
                  /\ rs[k].options.distribution =
                        IF HasOption(options, "distribution")
                        THEN options.fields.distribution ELSE "ggx"
                  /\ rs[k].options.numSamples =
                        IF HasOption(options, "numSamples")
                        THEN options.fields.numSamples ELSE 1024

C3_Witness ==
    /\ op = "generateAtlas"
    /\ pc = "done"
    /\ HasOption(options, "distribution")
    /\ options.fields.distribution = "phong"
    /\ HasOption(options, "numSamples")
    /\ ReprojectCalls[7].options.specularPower = 1
    /\ ReprojectCalls[7].options.distribution = "phong"

(* C4, as stated: generateAtlas always returns a texture of width 512 and  *)
(* height 512, also when options.target is supplied.                       *)
C4_Always512 ==
    (op = "generateAtlas" /\ pc = "done") =>
        heap[returned].width = 512 /\ heap[returned].height = 512

(* C4, amended: generateAtlas returns a 512x512 texture it allocated when  *)
(* options.target is not supplied, and otherwise returns options.target    *)
(* itself, allocating nothing.                                             *)
C4_Returns512OrTarget ==
    (op = "generateAtlas" /\ pc = "done") =>
        IF HasOption(options, "target")
        THEN /\ returned = options.fields.target
             /\ Len(heap) = 2
        ELSE /\ returned = 2
             /\ Len(heap) = 2
             /\ heap[returned].width = 512
             /\ heap[returned].height = 512

C4_Witness ==
    /\ op = "generateAtlas"
    /\ pc = "done"
    /\ HasOption(options, "target")
    /\ returned = options.fields.target
    /\ heap[returned].width # heap[returned].height

(* C5: in generateAtlas the ambient pass is the last reproject call and is *)
(* issued once; with legacyAmbient true it is phong, specularPower 2,      *)
(* numSamples options.numSamples else 4096, otherwise lambert without      *)
(* specularPower, numSamples options.numSamples else 2048; it reads from   *)
(* source with seamPixels 1, whatever options.distribution is.             *)
C5_AmbientPass ==
    op = "generateAtlas" =>
        LET rs == ReprojectCalls
            ambient == {k \in 1..Len(rs) : rs[k].options.rect = Vec4(256, 256, 64, 32)}
            legacy == HasOption(options, "legacyAmbient") /\ options.fields.legacyAmbient = TRUE
            samples(dflt) ==
                IF HasOption(options, "numSamples") THEN options.fields.numSamples ELSE dflt
        IN  IF pc \in {"atlas_pop", "atlas_return", "done"}
            THEN /\ ambient = {Len(rs)}
                 /\ Len(rs) = 8
                 /\ rs[8].source = source
                 /\ rs[8].target = result
                 /\ rs[8].options =
                       IF legacy
                       THEN [numSamples |-> samples(4096), distribution |-> "phong",
                             specularPower |-> 2, rect |-> Vec4(256, 256, 64, 32),
                             seamPixels |-> 1]
                       ELSE [numSamples |-> samples(2048), distribution |-> "lambert",
                             rect |-> Vec4(256, 256, 64, 32), seamPixels |-> 1]
            ELSE ambient = {}

C5_Witness ==
    /\ op = "generateAtlas"
    /\ pc = "done"
    /\ LegacyAmbient(options)
    /\ HasOption(options, "distribution")
    /\ options.fields.distribution = "lambert"
    /\ ReprojectCalls[8].options.distribution = "phong"

(* C6, as stated: in generatePrefilteredAtlas with 6 sources the loop      *)
(* issues 6 single-sample copies, sources[k] (k = 0..5) into the rect of   *)
(* reflection level k+1, and the level 0 rect (0,0,512,256) is not written *)
(* by the loop.                                                            *)
C6_SourcesFillLevels1To6 ==
    (op = "generatePrefilteredAtlas" /\ pc \in {"prefiltered_ambient", "prefiltered_convolve"}) =>
        LET rs == ReprojectCalls
        IN  /\ Len(rs) = 6
            /\ \A k \in 1..6 :
                  /\ rs[k].source = sources[k]
                  /\ rs[k].options.numSamples = 1
                  /\ rs[k].options.rect = AtlasLevelRects[k + 1]
                  /\ rs[k].options.rect # AtlasLevelRects[1]

(* C6, amended: in generatePrefilteredAtlas with 6 sources the loop issues *)
(* 6 single-sample copies, sources[k] (k = 0..5) into the rect of          *)
(* reflection level k, (0,0,512,256) ... (0,496,16,8), and the level 6     *)
(* rect (0,504,8,4) is not written by the loop.                            *)
C6_SourcesFillLevels0To5 ==
    (op = "generatePrefilteredAtlas" /\ pc \in {"prefiltered_ambient", "prefiltered_convolve"}) =>
        LET rs == ReprojectCalls
        IN  /\ Len(rs) = 6
            /\ \A k \in 1..6 :
                  /\ rs[k].source = sources[k]
                  /\ rs[k].target = result
                  /\ rs[k].options =
                        [numSamples |-> 1, rect |-> AtlasLevelRects[k], seamPixels |-> 1]
                  /\ rs[k].options.rect # AtlasLevelRects[7]

C6_Witness ==
    /\ op = "generatePrefilteredAtlas"
    /\ pc = "prefiltered_ambient"
    /\ Len(sources) = 6
    /\ Len(ReprojectCalls) = 6
    /\ ReprojectCalls[1].source = sources[1]
    /\ ReprojectCalls[1].options.rect = Vec4(0, 0, 512, 256)

(* C7, as stated: the texture generateMipmaps allocates is identical to    *)
(* target in name, cubemap flag, width, height, format, encoding type,     *)
(* addressU, addressV, fixCubemapSeams and projection, and has mipmaps     *)
(* true.                                                                   *)
C7_IdenticalButMipmaps ==
    mipResult # 0 =>
        /\ \A a \in {"name", "cubemap", "width", "height", "format", "type",
                     "addressU", "addressV", "fixCubemapSeams", "projection"} :
              Attr(heap[mipResult], a) = Attr(heap[target], a)
        /\ heap[mipResult].mipmaps = TRUE

(* C7, amended: the texture generateMipmaps allocates is constructed with  *)
(* target's cubemap flag, width, height, format, encoding type, addressU,  *)
(* addressV and fixCubemapSeams, with mipmaps true, with the name          *)
(* target.name + '-mipmaps', and with no projection (target's projection   *)
(* is not passed on).                                                      *)
C7_CopiesAttributesRenames ==
    mipResult # 0 =>
        /\ \A a \in {"cubemap", "width", "height", "format", "type",
                     "addressU", "addressV", "fixCubemapSeams"} :
              Attr(heap[mipResult], a) = Attr(heap[target], a)
        /\ heap[mipResult].mipmaps = TRUE
        /\ heap[mipResult].name = heap[target].name \o "-mipmaps"
        /\ "projection" \notin DOMAIN heap[mipResult]
        /\ mipResult # target

C7_Witness ==
    /\ op = "generateMipmaps"
    /\ pc = "done"
    /\ mipResult # 0
    /\ ~heap[target].mipmaps
    /\ heap[mipResult].mipmaps
    /\ heap[target].name = "source"
    /\ heap[mipResult].name = "source-mipmaps"
    /\ Attr(heap[target], "projection") = <<"TEXTUREPROJECTION_EQUIRECT">>
    /\ Attr(heap[mipResult], "projection") = <<>>

(* C8: a run of generateLightingSource submits reproject(source ->         *)
(* intermediate), then reproject(intermediate -> mipmapped result) with    *)
(* numSamples 1 and no distribution, then destroy(intermediate); the       *)
(* intermediate is destroyed once and not read after it, the returned      *)
(* texture is the mipmapped result, and neither the source nor the         *)
(* returned texture is destroyed.                                          *)
C8_LightingSourceOrder ==
    op = "generateLightingSource" =>
        LET es == EffectCalls
        IN  /\ Len(es) <= 3
            /\ Len(es) >= 1 =>
                  /\ es[1].kind = "reproject"
                  /\ es[1].source = source
                  /\ es[1].target = result
            /\ Len(es) >= 2 =>
                  /\ es[2].kind = "reproject"
                  /\ es[2].source = result
                  /\ es[2].target = mipResult
                  /\ es[2].options = [numSamples |-> 1]
            /\ Len(es) >= 3 =>
                  /\ es[3].kind = "destroy"
                  /\ es[3].texture = result
            /\ \A j, k \in 1..Len(es) :
                  (j < k /\ es[j].kind = "destroy" /\ es[k].kind = "reproject") =>
                      es[j].texture \notin {es[k].source, es[k].target}
            /\ source \notin destroyed
            /\ destroyed \subseteq {result}
            /\ pc = "done" =>
                  /\ Len(es) = 3
                  /\ destroyed = {result}
                  /\ returned = mipResult
                  /\ returned \notin {source, result}
                  /\ returned \notin destroyed
                  /\ heap[returned].mipmaps

C8_Witness ==
    /\ op = "generateLightingSource"
    /\ pc = "done"
    /\ Len(EffectCalls) = 3
    /\ destroyed = {result}
    /\ returned = mipResult

(* C9: generateLightingSource returns a cubemap of face size 128 with      *)
(* mipmaps whose format is 16-bit float when half float is supported and   *)
(* renderable, else 32-bit float when float is supported and renderable,   *)
(* else 8 bit per channel, range-compressed exactly in that last case; its *)
(* first reproject uses numSamples 1 when source.mipmaps, else 1024.       *)
C9_LightingSourceFormat ==
    (op = "generateLightingSource" /\ pc = "done") =>
        LET t == heap[returned]
            half == device.extTextureHalfFloat /\ device.textureHalfFloatRenderable
            full == device.extTextureFloat /\ device.textureFloatRenderable
        IN  /\ t.cubemap = TRUE
            /\ t.width = 128
            /\ t.height = 128
            /\ t.mipmaps = TRUE
            /\ half => t.format = "PIXELFORMAT_RGBA16F"
            /\ (~half /\ full) => t.format = "PIXELFORMAT_RGBA32F"
            /\ (~half /\ ~full) => t.format = "PIXELFORMAT_R8_G8_B8_A8"
            /\ t.type = IF ~half /\ ~full THEN "TEXTURETYPE_RGBM" ELSE "TEXTURETYPE_DEFAULT"
            /\ ReprojectCalls[1].options.numSamples =
                  IF heap[source].mipmaps THEN 1 ELSE 1024

C9_Witness ==
    /\ op = "generateLightingSource"
    /\ pc = "done"
    /\ device.extTextureHalfFloat
    /\ ~device.textureHalfFloatRenderable
    /\ device.extTextureFloat
    /\ device.textureFloatRenderable
    /\ heap[returned].format = "PIXELFORMAT_RGBA32F"
    /\ heap[source].mipmaps
    /\ ReprojectCalls[1].options.numSamples = 1

(* C10: in each public operation the pops never exceed the pushes, the     *)
(* open-span depth at return equals the depth at entry, and every          *)
(* reproject and destroy is issued while a span of the operation is open.  *)
C10_SpansBracketCalls ==
    op \in {"generateSkyboxCubemap", "generateLightingSource",
            "generateAtlas", "generatePrefilteredAtlas"} =>
        /\ \A n \in 0..Len(calls) : OpenSpans(n) >= 0
        /\ \A k \in 1..Len(calls) :
              calls[k].kind \in {"reproject", "destroy"} => OpenSpans(k - 1) > 0
        /\ pc = "done" => OpenSpans(Len(calls)) = 0

C10_Witness ==
    /\ op = "generateLightingSource"
    /\ pc = "done"
    /\ OpenSpans(Len(calls)) = 0
    /\ \E k \in 1..Len(calls) : calls[k].kind = "destroy" /\ OpenSpans(k - 1) = 1
    /\ Cardinality({k \in 1..Len(calls) : calls[k].kind = "push"}) = 2

====
